---- MODULE Spec2Model ----
(***************************************************************************)
(* Model of saltyrtc/server/protocol.py: the Path slot table, the          *)
(* PathClient state and address, the operations that attach, remove and    *)
(* drop clients, the validation of the cookie and of the combined sequence *)
(* number of incoming frames, the task queue of a client, the background   *)
(* tasks of a client, and the admission of relayed messages.               *)
(*                                                                         *)
(* Clients are numbered 1..NClients; NoClient stands for Python's None.    *)
(* The responder table Path._responders is a function whose DOMAIN is the  *)
(* set of keys of the dict.                                                *)
(***************************************************************************)
EXTENDS Integers, FiniteSets, Sequences, TLC

\* ------------------------------------------------------------------ bounds
\* Number of PathClient instances that ever connect to the path.
NClients == 3
\* Largest responder address.  The program's value is 0xff; the model keeps
\* the range 0x02..MaxResponderAddress small so that a full path is reached.
MaxResponderAddress == 3
\* Width of the sequence number part of a combined sequence number (32 bits
\* in the program) and of the overflow number in front of it (16 bits in the
\* program).  The model keeps both widths small so that a counter runs from
\* its first value to the overflow.
SeqBits == 2
OvfBits == 2
\* Number of distinct cookie values (16 random bytes in the program).
NCookies == 6
\* Number of enqueue_task() calls made for a client, the one made by drop()
\* not counted.
MaxItems == 2

\* --------------------------------------------------------------- constants
NoClient == 0
SERVER_ADDRESS == 0
INITIATOR_ADDRESS == 1
FirstResponderAddress == 2

\* ClientState (an IntEnum)
Restricted == 1
Authenticated == 2
Dropped == 3

\* _TaskQueueState (an IntEnum)
QueueOpen == 1
QueueClosed == 2
QueueCancelled == 3

\* None in the place of a combined sequence number, and OverflowSentinel.
NoCsn == -1
OverflowSentinel == -2
\* The first value that does not fit a combined sequence number (2^48 in the
\* program).
CsnLimit == 2 ^ (SeqBits + OvfBits)
\* Width of the mask 0xf000000000000 that _increment_csn applies above the
\* combined sequence number.
OverflowMaskBits == 4
CsnValues == 0..(CsnLimit - 1)

\* None in the place of a cookie.
NoCookie == 0
Cookies == 1..NCookies

\* The items of a task queue: the close coroutine that drop() creates, and
\* the awaitables handed to enqueue_task() in the order of the calls.
CloseItem == 0
NoItem == -1
Items == CloseItem..MaxItems

Clients == 1..NClients
ResponderAddresses == FirstResponderAddress..MaxResponderAddress

VARIABLES
    initiator,       \* Path._initiator: a client or NoClient
    responders,      \* Path._responders: responder address -> client
    state,           \* PathClient._state, per client
    id,              \* PathClient._id, per client
    tqState,         \* PathClient._task_queue_state, per client
    tasksCancelled,  \* PathClientTasks._cancelled, per client
    closeScheduled,  \* enqueue_task(close(), ignore_closed=True) tasks created
                     \* by drop() and not yet run, per client
    csnIn,           \* PathClient._csn_in of one client
    csnPending,      \* TRUE while a frame of that client has been validated
                     \* and increment_csn_in() has not been called for it
    accepted,        \* history: the numbers validate_csn_in() has accepted
    cookieOut,       \* PathClient._cookie_out of one client
    cookieIn,        \* PathClient._cookie_in of that client
    queue,           \* PathClient._task_queue: the items on it, per client
    unfinished,      \* the unfinished tasks counter of that queue, per client
    items,           \* the awaitables handed to the queue, per client
    inflight,        \* the item the task loop is awaiting, per client
    loopAlive,       \* FALSE once the task loop has exited, per client
    callbacks,       \* task items with task_done as done callback, per client
    connOpen,        \* FALSE once the connection is closed, per client
    wire,            \* history: the frames written to the connection
    loops,           \* PathClientTasks: task_loop, receive_loop and
                     \* keep_alive_loop, per client
    clientType,      \* PathClient.type, per client
    last,            \* history: the last call, its argument and its outcome
    removed,         \* history: TRUE once a responder has been deleted from
                     \* the table
    misused          \* history: TRUE once a call has been made outside the
                     \* callers' contract

pathVars == <<initiator, responders>>
clientVars == <<state, id>>
queueVars == <<tqState, tasksCancelled, closeScheduled>>
frameVars == <<csnIn, csnPending, accepted, cookieOut, cookieIn>>
taskVars == <<queue, unfinished, items, inflight, loopAlive, callbacks,
              connOpen, wire>>
loopVars == <<loops, clientType>>
histVars == <<last, loopVars, removed, misused>>
vars == <<initiator, responders, state, id, tqState, tasksCancelled,
          closeScheduled, csnIn, csnPending, accepted, cookieOut, cookieIn,
          queue, unfinished, items, inflight, loopAlive, callbacks, connOpen,
          wire, loops, clientType, last, removed, misused>>

\* ----------------------------------------------------------------- helpers
\* dict assignment d[k] = v
Put(d, k, v) == [a \in (DOMAIN d) \cup {k} |-> IF a = k THEN v ELSE d[a]]
\* del d[k]
Del(d, k) == [a \in (DOMAIN d) \ {k} |-> d[a]]
EmptyDict == [a \in {} |-> NoClient]

\* ResponderAddress(id_) raises ValueError unless id_ is a responder address.
ResponderAddressValid(a) == a \in ResponderAddresses

\* ClientState.next: the subsequent state; raises ValueError after Dropped.
ClientStateHasNext(s) == s < Dropped
ClientStateNext(s) == s + 1

\* The state setter accepts `new` only when it is the state after `cur`.
\* (faulty variant: the setter accepts every state)
StateSetterAccepts_Any(cur, new) == TRUE
StateSetterAccepts(cur, new) ==
    ClientStateHasNext(cur) /\ new = ClientStateNext(cur)

\* PathClient.authenticate(id_): the state setter first, then the id.
\* The result holds the error raised ("none" when it returns) and the new
\* state and id of every client.
\* (faulty variant: the id is not assigned)
Authenticate_KeepId(c, id_) ==
    IF StateSetterAccepts(state[c], Authenticated)
    THEN [err |-> "none",
          state |-> [state EXCEPT ![c] = Authenticated],
          id |-> id]
    ELSE [err |-> "ValueError", state |-> state, id |-> id]
\* (faulty variant: the state is not advanced)
Authenticate_KeepState(c, id_) ==
    IF StateSetterAccepts(state[c], Authenticated)
    THEN [err |-> "none",
          state |-> state,
          id |-> [id EXCEPT ![c] = id_]]
    ELSE [err |-> "ValueError", state |-> state, id |-> id]
Authenticate(c, id_) ==
    IF StateSetterAccepts(state[c], Authenticated)
    THEN [err |-> "none",
          state |-> [state EXCEPT ![c] = Authenticated],
          id |-> [id EXCEPT ![c] = id_]]
    ELSE [err |-> "ValueError", state |-> state, id |-> id]

\* Path.add_responder: the slot id it calculates.
\* (faulty variants: one slot too far; always the first slot)
SlotId_OffByOne(resp) == Cardinality(DOMAIN resp) + 3
SlotId_First(resp) == FirstResponderAddress
SlotId(resp) == Cardinality(DOMAIN resp) + 2

\* Path.set_initiator: the value it returns, given the initiator that was set
\* before the call and the one it has set.
\* (faulty variant: the new initiator is returned)
SetInitiatorReturn_New(previous, new) == new
SetInitiatorReturn(previous, new) == previous

\* Path.remove_client: whether the client is the initiator the path holds.
\* (faulty variant: the identity of the initiator is not compared)
IsCurrentInitiator_Always(c) == TRUE
IsCurrentInitiator(c) == initiator = c

\* Path.has_client(client): the slot of the client's id holds the client.
HasClient(c) ==
    IF id[c] = INITIATOR_ADDRESS
    THEN initiator = c
    ELSE IF ~ResponderAddressValid(id[c])
    THEN FALSE
    ELSE id[c] \in DOMAIN responders /\ responders[id[c]] = c

\* The record of a call: the operation, its argument, the error it raised
\* ("none" when it returned) and the value it returned.
Call(op, c, err, ret) == [op |-> op, client |-> c, err |-> err, ret |-> ret]

\* ------------------------------------------- combined sequence numbers
\* PathClient._increment_csn(csn).  The test csn_value & 0xf000000000000 is
\* on the bits OverflowMaskBits wide that lie above the combined sequence
\* number.
\* (faulty variants: the number wraps around; the number advances by two)
IncrementCsn_Wrap(csn) ==
    IF csn = OverflowSentinel THEN OverflowSentinel ELSE (csn + 1) % CsnLimit
IncrementCsn_Skip(csn) ==
    IF csn = OverflowSentinel
    THEN OverflowSentinel
    ELSE IF csn + 2 >= CsnLimit THEN OverflowSentinel ELSE csn + 2
IncrementCsn(csn) ==
    IF csn = OverflowSentinel
    THEN OverflowSentinel
    ELSE LET csn_value == csn + 1 IN
         IF (csn_value \div CsnLimit) % (2 ^ OverflowMaskBits) # 0
         THEN OverflowSentinel
         ELSE csn_value

\* csn_in & 0xffff00000000, moved down to bit 0: the overflow number that
\* leads a combined sequence number.
LeadingBits(csn) == (csn \div (2 ^ SeqBits)) % (2 ^ OvfBits)

\* PathClient.validate_csn_in(csn_in), given the recorded number `cur`: the
\* error raised ("none" when it returns) and the number recorded afterwards.
\* (faulty variant: the first number is recorded before its leading bits
\* are looked at)
ValidateCsnIn_RecordFirst(cur, csn) ==
    LET rec == IF cur = NoCsn THEN csn ELSE cur IN
    IF cur = NoCsn /\ LeadingBits(csn) # 0
    THEN [err |-> "MessageError", csn_in |-> rec]
    ELSE IF rec = OverflowSentinel
    THEN [err |-> "MessageFlowError", csn_in |-> rec]
    ELSE IF csn # rec
    THEN [err |-> "MessageError", csn_in |-> rec]
    ELSE [err |-> "none", csn_in |-> rec]
ValidateCsnIn(cur, csn) ==
    IF cur = NoCsn /\ LeadingBits(csn) # 0
    THEN [err |-> "MessageError", csn_in |-> cur]
    ELSE LET rec == IF cur = NoCsn THEN csn ELSE cur IN
         IF rec = OverflowSentinel
         THEN [err |-> "MessageFlowError", csn_in |-> rec]
         ELSE IF csn # rec
         THEN [err |-> "MessageError", csn_in |-> rec]
         ELSE [err |-> "none", csn_in |-> rec]

\* ---------------------------------------------------------------- cookies
\* PathClient.valid_cookie(cookie_in), given the recorded cookie `cur` and
\* the cookie `out` of the server: the value returned and the cookie recorded
\* afterwards.
\* (faulty variant: a cookie that differs from the recorded one replaces it)
ValidCookie_Overwrite(cur, out, cookie) ==
    IF cur = NoCookie
    THEN IF cookie = out
         THEN [ok |-> FALSE, cookie_in |-> cur]
         ELSE [ok |-> TRUE, cookie_in |-> cookie]
    ELSE IF cookie # cur
         THEN [ok |-> FALSE, cookie_in |-> cookie]
         ELSE [ok |-> TRUE, cookie_in |-> cur]
ValidCookie(cur, out, cookie) ==
    IF cur = NoCookie
    THEN IF cookie = out
         THEN [ok |-> FALSE, cookie_in |-> cur]
         ELSE [ok |-> TRUE, cookie_in |-> cookie]
    ELSE IF cookie # cur
         THEN [ok |-> FALSE, cookie_in |-> cur]
         ELSE [ok |-> TRUE, cookie_in |-> cur]

\* ------------------------------------------------------------- task queue
\* An awaitable handed to enqueue_task(): a coroutine ("coroutine", or "close"
\* for the close coroutine of drop()) or a task ("task").
\*   st:   a coroutine is "new", "running", "finished" or "closed";
\*         a task is "pending", "cancelling" (cancel() has been called and
\*         the event loop has not cancelled it yet), "cancelled" or "done".
\*   pos:  "rejected" (enqueue_task() did not put it), "queued", "inflight"
\*         (dequeued, awaited by the task loop), "ran" (the task loop has
\*         awaited it) or "drained" (cancel_task_queue() has taken it off).
\*   done: how often task_done() has been called for it.
\*   late: TRUE when it was handed to enqueue_task() after drop() returned.
NoAwaitable ==
    [kind |-> "none", st |-> "none", pos |-> "none", done |-> 0,
     late |-> FALSE]
Awaitable(kind, late) ==
    [kind |-> kind, st |-> IF kind = "task" THEN "pending" ELSE "new",
     pos |-> "none", done |-> 0, late |-> late]

\* enqueue_task(): whether the awaitable is put on the queue.
\* (faulty variant: a closed queue admits every awaitable)
EnqueueAdmits_Closed(q, ignore_closed) == q = QueueOpen \/ q = QueueClosed
EnqueueAdmits(q, ignore_closed) ==
    q = QueueOpen \/ (ignore_closed /\ q = QueueClosed)

\* asyncio.Queue.put on the unbounded queue.
\* (faulty variant: the item is put in front)
QueuePut_Front(q, i) == <<i>> \o q
QueuePut(q, i) == Append(q, i)

\* _cancel_awaitable(): the status of the awaitable afterwards.  A coroutine
\* is closed; a task is cancelled unless it is cancelled or done already.
CancelAwaitable(it) ==
    IF it.kind = "task"
    THEN IF it.st = "pending" THEN "cancelling" ELSE it.st
    ELSE "closed"

\* _cancel_awaitable(mark_as_done=True): a coroutine is marked as done in
\* the call, a task by the done callback it is given.
\* (faulty variant: a task is marked as done in the call as well)
MarkedInCall_All(kind) == TRUE
MarkedInCall(kind) == kind # "task"

\* task_done(): asyncio.Queue.task_done raises ValueError, turned into
\* InternalError, when no unfinished task is left.
TaskDone(n) ==
    IF n <= 0
    THEN [err |-> "InternalError", unfinished |-> n]
    ELSE [err |-> "none", unfinished |-> n - 1]

\* task_done() called k times in a row, up to the first call that raises.
RECURSIVE TaskDoneTimes(_, _)
TaskDoneTimes(n, k) ==
    IF k = 0
    THEN [err |-> "none", unfinished |-> n]
    ELSE LET r == TaskDone(n) IN
         IF r.err # "none" THEN r ELSE TaskDoneTimes(r.unfinished, k - 1)

\* PathClient.cancel_task_queue(): the state of the queue afterwards.
CancelTaskQueueState(q) == IF q >= QueueCancelled THEN q ELSE QueueCancelled

\* The number the next enqueue_task() call of a client gets.
NextItem(c) ==
    Cardinality({i \in 1..MaxItems : items[c][i].kind # "none"}) + 1

\* -------------------------------------------------------- PathClientTasks
\* The three tasks of a client: each is "none" (None), "running" or
\* "cancelled" (cancel() has been called on it).
NoTasks ==
    [task_loop |-> "none", receive_loop |-> "none", keep_alive_loop |-> "none"]
LoopNames == {"task_loop", "receive_loop", "keep_alive_loop"}

\* cancel_all_but_task_loop(force), given the tasks and the _cancelled flag:
\* the tasks afterwards.  Every task that is not None and is not the task
\* loop is cancelled, unless the flag is set and force is not.
\* (faulty variants: every valid task is cancelled; a set flag stops the
\* forced call as well)
CancelAllButTaskLoop_All(t, cancelled, force) ==
    IF cancelled /\ ~force
    THEN t
    ELSE [n \in LoopNames |-> IF t[n] # "none" THEN "cancelled" ELSE t[n]]
CancelAllButTaskLoop_NoForce(t, cancelled, force) ==
    IF cancelled
    THEN t
    ELSE [n \in LoopNames |->
            IF t[n] # "none" /\ n # "task_loop" THEN "cancelled" ELSE t[n]]
CancelAllButTaskLoop(t, cancelled, force) ==
    IF cancelled /\ ~force
    THEN t
    ELSE [n \in LoopNames |->
            IF t[n] # "none" /\ n # "task_loop" THEN "cancelled" ELSE t[n]]

\* ------------------------------------------------------------------ relay
\* AddressType.from_address: the type of an address.
AddressTypeOf(address) ==
    IF address = SERVER_ADDRESS THEN "server"
    ELSE IF address = INITIATOR_ADDRESS THEN "initiator"
    ELSE "responder"

\* PathClient.p2p_allowed(destination_type)
\* (faulty variants: the state is not looked at; the types are not compared)
P2PAllowed_AnyState(c, destination_type) ==
    clientType[c] # destination_type
P2PAllowed_AnyType(c, destination_type) ==
    state[c] = Authenticated
P2PAllowed(c, destination_type) ==
    state[c] = Authenticated /\ clientType[c] # destination_type

\* -------------------------------------------------------------------- Init
Init ==
    /\ initiator = NoClient
    /\ responders = EmptyDict
    /\ state = [c \in Clients |-> Restricted]
    /\ id = [c \in Clients |-> SERVER_ADDRESS]
    /\ tqState = [c \in Clients |-> QueueOpen]
    /\ tasksCancelled = [c \in Clients |-> FALSE]
    /\ closeScheduled = [c \in Clients |-> 0]
    /\ csnIn = NoCsn
    /\ csnPending = FALSE
    /\ accepted = <<>>
    /\ cookieOut = NoCookie
    /\ cookieIn = NoCookie
    /\ queue = [c \in Clients |-> <<>>]
    /\ unfinished = [c \in Clients |-> 0]
    /\ items = [c \in Clients |-> [i \in Items |-> NoAwaitable]]
    /\ inflight = [c \in Clients |-> NoItem]
    /\ loopAlive = [c \in Clients |-> TRUE]
    /\ callbacks = [c \in Clients |-> {}]
    /\ connOpen = [c \in Clients |-> TRUE]
    /\ wire = [c \in Clients |-> <<>>]
    /\ loops = [c \in Clients |-> NoTasks]
    /\ clientType = [c \in Clients |-> "undetermined"]
    /\ last = [op |-> "init", client |-> NoClient, err |-> "none",
               ret |-> 0]
    /\ removed = FALSE
    /\ misused = FALSE

\* ----------------------------------------------------------------- actions
\* Path.set_initiator(initiator): the slot is assigned before authenticate
\* is called, so it stays assigned when authenticate raises.
SetInitiator(c) ==
    LET auth == Authenticate(c, INITIATOR_ADDRESS) IN
    /\ initiator' = c
    /\ responders' = responders
    /\ state' = auth.state
    /\ id' = auth.id
    /\ last' = Call("set_initiator", c, auth.err,
                    IF auth.err = "none"
                    THEN SetInitiatorReturn(initiator, c) ELSE NoClient)
    /\ UNCHANGED <<queueVars, removed>>

\* Path.add_responder(responder)
AddResponder(c) ==
    LET slot == SlotId(responders) IN
    IF ~ResponderAddressValid(slot)
    THEN /\ last' = Call("add_responder", c, "SlotsFullError", 0)
         /\ UNCHANGED <<pathVars, clientVars, queueVars, removed>>
    ELSE LET auth == Authenticate(c, slot) IN
         /\ responders' = Put(responders, slot, c)
         /\ initiator' = initiator
         /\ state' = auth.state
         /\ id' = auth.id
         /\ last' = Call("add_responder", c, auth.err,
                         IF auth.err = "none" THEN slot ELSE 0)
         /\ UNCHANGED <<queueVars, removed>>

\* Path.remove_client(client)
RemoveClient(c) ==
    /\ UNCHANGED <<clientVars, queueVars>>
    /\ IF state[c] = Restricted
       THEN /\ last' = Call("remove_client", c, "none", 0)
            /\ UNCHANGED <<pathVars, removed>>
       ELSE IF id[c] = INITIATOR_ADDRESS
       THEN IF initiator = NoClient
            THEN \* get_initiator() raises KeyError('No initiator present')
                 /\ last' = Call("remove_client", c, "KeyError", 0)
                 /\ UNCHANGED <<pathVars, removed>>
            ELSE IF ~IsCurrentInitiator(c)
            THEN /\ last' = Call("remove_client", c, "none", 0)
                 /\ UNCHANGED <<pathVars, removed>>
            ELSE /\ initiator' = NoClient
                 /\ last' = Call("remove_client", c, "none", 0)
                 /\ UNCHANGED <<responders, removed>>
       ELSE IF ~ResponderAddressValid(id[c])
       THEN /\ last' = Call("remove_client", c, "KeyError", 0)
            /\ UNCHANGED <<pathVars, removed>>
       ELSE IF id[c] \notin DOMAIN responders
       THEN \* del self._responders[id_] raises KeyError
            /\ last' = Call("remove_client", c, "KeyError", 0)
            /\ UNCHANGED <<pathVars, removed>>
       ELSE /\ responders' = Del(responders, id[c])
            /\ removed' = TRUE
            /\ last' = Call("remove_client", c, "none", 0)
            /\ UNCHANGED initiator

\* PathClient.close_task_queue()
\* (faulty variant: the state is assigned whatever it was)
CloseTaskQueue_Always(q) == QueueClosed
CloseTaskQueue(q) == IF q >= QueueClosed THEN q ELSE QueueClosed

\* PathClient.drop(code): creates the task that enqueues the close
\* coroutine, closes the task queue, cancels the receive and keep alive
\* loops, and assigns the state last.
Drop(c) ==
    LET ok == StateSetterAccepts(state[c], Dropped) IN
    /\ closeScheduled' = [closeScheduled EXCEPT ![c] = @ + 1]
    /\ tqState' = [tqState EXCEPT ![c] = CloseTaskQueue(@)]
    /\ tasksCancelled' = [tasksCancelled EXCEPT ![c] = TRUE]
    /\ loops' = [loops EXCEPT ![c] =
                   CancelAllButTaskLoop(@, tasksCancelled[c], FALSE)]
    /\ state' = IF ok THEN [state EXCEPT ![c] = Dropped] ELSE state
    /\ last' = Call("drop", c, IF ok THEN "none" ELSE "ValueError", 0)
    /\ UNCHANGED <<pathVars, id, removed>>

\* ----------------------------------------------------- incoming frames
\* validate_csn_in(csn) for the next frame of the client.  The receive loop
\* handles one frame at a time.
ReceiveCsn(csn) ==
    LET r == ValidateCsnIn(csnIn, csn) IN
    /\ ~csnPending
    /\ csnIn' = r.csn_in
    /\ csnPending' = (r.err = "none")
    /\ accepted' = IF r.err = "none" THEN Append(accepted, csn) ELSE accepted
    /\ last' = Call("validate_csn_in", csn, r.err, 0)
    /\ UNCHANGED <<pathVars, clientVars, queueVars, cookieOut, cookieIn,
                   taskVars, loopVars, removed, misused>>

\* increment_csn_in(), after a frame has been accepted, or once the number
\* has overflowed.
IncrementCsnIn ==
    /\ csnPending \/ csnIn = OverflowSentinel
    /\ csnIn' = IncrementCsn(csnIn)
    /\ csnPending' = FALSE
    /\ last' = Call("increment_csn_in", 0, "none", 0)
    /\ UNCHANGED <<pathVars, clientVars, queueVars, accepted, cookieOut,
                   cookieIn, taskVars, loopVars, removed, misused>>

\* The cookie_out property: the cookie is drawn when it is first read.
CookieOut ==
    /\ cookieOut = NoCookie
    /\ cookieOut' \in Cookies
    /\ last' = Call("cookie_out", 0, "none", 0)
    /\ UNCHANGED <<pathVars, clientVars, queueVars, csnIn, csnPending,
                   accepted, cookieIn, taskVars, loopVars, removed, misused>>

\* valid_cookie(cookie).  Before a cookie is recorded it reads cookie_out.
ValidCookieCall(cookie) ==
    \E out \in IF cookieIn = NoCookie /\ cookieOut = NoCookie
                THEN Cookies
                ELSE {cookieOut} :
        LET r == ValidCookie(cookieIn, out, cookie) IN
        /\ cookieOut' = out
        /\ cookieIn' = r.cookie_in
        /\ last' = Call("valid_cookie", cookie, "none",
                        IF r.ok THEN 1 ELSE 0)
        /\ UNCHANGED <<pathVars, clientVars, queueVars, csnIn, csnPending,
                       accepted, taskVars, loopVars, removed, misused>>

\* ------------------------------------------------------------- task queue
\* A frame written to the connection of a client that has been dropped.
WriteFrame(c, type, i) ==
    IF state[c] = Dropped
    THEN [wire EXCEPT ![c] = Append(@, [type |-> type, item |-> i])]
    ELSE wire

\* enqueue_task(awaitable, ignore_closed) with the awaitable numbered i.
EnqueueTask(c, i, kind, ignore_closed) ==
    LET it == Awaitable(kind, state[c] = Dropped) IN
    IF EnqueueAdmits(tqState[c], ignore_closed)
    THEN /\ queue' = [queue EXCEPT ![c] = QueuePut(@, i)]
         /\ unfinished' = [unfinished EXCEPT ![c] = @ + 1]
         /\ items' = [items EXCEPT ![c][i] = [it EXCEPT !.pos = "queued"]]
    ELSE /\ items' = [items EXCEPT ![c][i] =
                         [it EXCEPT !.st = CancelAwaitable(it),
                                    !.pos = "rejected"]]
         /\ UNCHANGED <<queue, unfinished>>

\* enqueue_task(awaitable) called for a coroutine that sends a message to
\* the client, or for a task.
Enqueue(c, kind) ==
    /\ NextItem(c) <= MaxItems
    /\ EnqueueTask(c, NextItem(c), kind, FALSE)
    /\ last' = Call("enqueue_task", c, "none", NextItem(c))
    /\ UNCHANGED <<pathVars, clientVars, queueVars, frameVars, inflight,
                   loopAlive, callbacks, connOpen, wire, loopVars, removed,
                   misused>>

\* The task that drop() has created runs
\* enqueue_task(close_coroutine, ignore_closed=True).
RunEnqueueClose(c) ==
    /\ closeScheduled[c] > 0
    /\ closeScheduled' = [closeScheduled EXCEPT ![c] = @ - 1]
    /\ EnqueueTask(c, CloseItem, "close", TRUE)
    /\ last' = Call("enqueue_task", c, "none", CloseItem)
    /\ UNCHANGED <<pathVars, clientVars, tqState, tasksCancelled, frameVars,
                   inflight, loopAlive, callbacks, connOpen, wire, loopVars,
                   removed,
                   misused>>

\* The peer closes the connection.
ConnectionLost(c) ==
    /\ connOpen[c]
    /\ connOpen' = [connOpen EXCEPT ![c] = FALSE]
    /\ last' = Call("connection_lost", c, "none", 0)
    /\ UNCHANGED <<pathVars, clientVars, queueVars, frameVars, queue,
                   unfinished, items, inflight, loopAlive, callbacks, wire,
                   loopVars, removed, misused>>

\* ping() called by the keep alive loop, which drop() cancels: a ping frame
\* is written, or ConnectionClosed is caught, the task queue is closed and
\* Disconnected is raised.
Ping(c) ==
    /\ ~tasksCancelled[c]
    /\ IF connOpen[c]
       THEN /\ wire' = WriteFrame(c, "ping", NoItem)
            /\ last' = Call("ping", c, "none", 0)
            /\ UNCHANGED tqState
       ELSE /\ tqState' = [tqState EXCEPT ![c] = CloseTaskQueue(@)]
            /\ last' = Call("ping", c, "Disconnected", 0)
            /\ UNCHANGED wire
    /\ UNCHANGED <<pathVars, clientVars, tasksCancelled, closeScheduled,
                   frameVars, queue, unfinished, items, inflight, loopAlive,
                   callbacks, connOpen, loopVars, removed, misused>>

\* close(code) called for a client that is not dropped: the task queue is
\* closed, then the connection.
Close(c) ==
    /\ state[c] # Dropped
    /\ tqState' = [tqState EXCEPT ![c] = CloseTaskQueue(@)]
    /\ connOpen' = [connOpen EXCEPT ![c] = FALSE]
    /\ wire' = IF connOpen[c] THEN WriteFrame(c, "close", NoItem) ELSE wire
    /\ last' = Call("close", c, "none", 0)
    /\ UNCHANGED <<pathVars, clientVars, tasksCancelled, closeScheduled,
                   frameVars, queue, unfinished, items, inflight, loopAlive,
                   callbacks, loopVars, removed, misused>>

\* close_task_queue() called on its own.
CloseQueue(c) ==
    /\ tqState' = [tqState EXCEPT ![c] = CloseTaskQueue(@)]
    /\ last' = Call("close_task_queue", c, "none", 0)
    /\ UNCHANGED <<pathVars, clientVars, tasksCancelled, closeScheduled,
                   frameVars, taskVars, loopVars, removed, misused>>

\* cancel_task_queue(): unless the queue is cancelled already, every item is
\* taken off the queue and handed to _cancel_awaitable(mark_as_done=True).
CancelTaskQueue(c) ==
    IF tqState[c] >= QueueCancelled
    THEN /\ last' = Call("cancel_task_queue", c, "none", 0)
         /\ UNCHANGED <<pathVars, clientVars, queueVars, frameVars, taskVars,
                        loopVars, removed, misused>>
    ELSE LET pend == {queue[c][k] : k \in 1..Len(queue[c])}
             marked == {i \in pend : MarkedInCall(items[c][i].kind)}
             r == TaskDoneTimes(unfinished[c], Cardinality(marked))
         IN
         /\ tqState' = [tqState EXCEPT ![c] = CancelTaskQueueState(@)]
         /\ queue' = [queue EXCEPT ![c] = <<>>]
         /\ items' = [items EXCEPT ![c] = [i \in Items |->
               IF i \in pend
               THEN [items[c][i] EXCEPT
                       !.st = CancelAwaitable(items[c][i]),
                       !.pos = "drained",
                       !.done = @ + IF i \in marked THEN 1 ELSE 0]
               ELSE items[c][i]]]
         /\ callbacks' = [callbacks EXCEPT ![c] =
               @ \cup {i \in pend : items[c][i].kind = "task"}]
         /\ unfinished' = [unfinished EXCEPT ![c] = r.unfinished]
         /\ last' = Call("cancel_task_queue", c, r.err, 0)
         /\ UNCHANGED <<pathVars, clientVars, tasksCancelled, closeScheduled,
                        frameVars, inflight, loopAlive, connOpen, wire,
                        loopVars, removed, misused>>

\* The task loop takes the next item with dequeue_task() and starts to await
\* it.  The close coroutine closes the task queue when it starts.
TaskLoopDequeue(c) ==
    /\ loopAlive[c]
    /\ inflight[c] = NoItem
    /\ queue[c] # <<>>
    /\ LET i == Head(queue[c]) IN
       /\ inflight' = [inflight EXCEPT ![c] = i]
       /\ queue' = [queue EXCEPT ![c] = Tail(@)]
       /\ items' = [items EXCEPT ![c][i] =
             [@ EXCEPT !.pos = "inflight",
                       !.st = IF items[c][i].kind = "task"
                               THEN @ ELSE "running"]]
       /\ tqState' = IF items[c][i].kind = "close"
                     THEN [tqState EXCEPT ![c] = CloseTaskQueue(@)]
                     ELSE tqState
       /\ last' = Call("dequeue_task", c, "none", i)
    /\ UNCHANGED <<pathVars, clientVars, tasksCancelled, closeScheduled,
                   frameVars, unfinished, loopAlive, callbacks, connOpen,
                   wire, loopVars, removed, misused>>

\* The item the task loop awaits completes, and the task loop calls
\* task_done().  A coroutine that sends writes its frame, or catches
\* ConnectionClosed, closes the task queue and raises Disconnected, on which
\* the task loop exits.  The close coroutine closes the connection.
TaskLoopFinish(c) ==
    /\ inflight[c] # NoItem
    /\ LET i == inflight[c]
           it == items[c][i]
           r == TaskDone(unfinished[c])
           failed == it.kind = "coroutine" /\ ~connOpen[c]
       IN
       /\ it.kind = "task" => it.st \in {"done", "cancelled"}
       /\ wire' = IF it.kind # "task" /\ connOpen[c]
                  THEN WriteFrame(c, IF it.kind = "close" THEN "close"
                                                           ELSE "message", i)
                  ELSE wire
       /\ connOpen' = IF it.kind = "close"
                      THEN [connOpen EXCEPT ![c] = FALSE]
                      ELSE connOpen
       /\ tqState' = IF failed
                     THEN [tqState EXCEPT ![c] = CloseTaskQueue(@)]
                     ELSE tqState
       /\ loopAlive' = IF failed
                       THEN [loopAlive EXCEPT ![c] = FALSE]
                       ELSE loopAlive
       /\ items' = [items EXCEPT ![c][i] =
             [@ EXCEPT !.pos = "ran",
                       !.st = IF it.kind = "task" THEN @ ELSE "finished",
                       !.done = @ + 1]]
       /\ unfinished' = [unfinished EXCEPT ![c] = r.unfinished]
       /\ inflight' = [inflight EXCEPT ![c] = NoItem]
       /\ last' = Call("task_done", c, r.err, i)
    /\ UNCHANGED <<pathVars, clientVars, tasksCancelled, closeScheduled,
                   frameVars, queue, callbacks, loopVars, removed, misused>>

\* A task completes on the event loop.
TaskCompletes(c, i) ==
    /\ items[c][i].kind = "task"
    /\ items[c][i].st = "pending"
    /\ items' = [items EXCEPT ![c][i].st = "done"]
    /\ last' = Call("task_completes", c, "none", i)
    /\ UNCHANGED <<pathVars, clientVars, queueVars, frameVars, queue,
                   unfinished, inflight, loopAlive, callbacks, connOpen,
                   wire, loopVars, removed, misused>>

\* The event loop cancels a task on which cancel() has been called.
TaskCancelled(c, i) ==
    /\ items[c][i].kind = "task"
    /\ items[c][i].st = "cancelling"
    /\ items' = [items EXCEPT ![c][i].st = "cancelled"]
    /\ last' = Call("task_cancelled", c, "none", i)
    /\ UNCHANGED <<pathVars, clientVars, queueVars, frameVars, queue,
                   unfinished, inflight, loopAlive, callbacks, connOpen,
                   wire, loopVars, removed, misused>>

\* The event loop runs the done callback of a task that is cancelled or
\* done: task_done().
DoneCallback(c, i) ==
    /\ i \in callbacks[c]
    /\ items[c][i].st \in {"done", "cancelled"}
    /\ LET r == TaskDone(unfinished[c]) IN
       /\ unfinished' = [unfinished EXCEPT ![c] = r.unfinished]
       /\ last' = Call("task_done", c, r.err, i)
    /\ items' = [items EXCEPT ![c][i].done = @ + 1]
    /\ callbacks' = [callbacks EXCEPT ![c] = @ \ {i}]
    /\ UNCHANGED <<pathVars, clientVars, queueVars, frameVars, queue,
                   inflight, loopAlive, connOpen, wire, loopVars, removed,
                   misused>>

\* -------------------------------------------------------- PathClientTasks
\* PathClientTasks.set(task_loop, receive_loop, keep_alive_loop), called
\* once; the receive loop and the keep alive loop may be None.  When the
\* cancellation was asked for before, the tasks are cancelled at once.
TasksSet(c, receive_loop, keep_alive_loop) ==
    LET t == [task_loop |-> "running",
              receive_loop |-> IF receive_loop THEN "running" ELSE "none",
              keep_alive_loop |-> IF keep_alive_loop THEN "running"
                                                     ELSE "none"]
    IN
    /\ loops[c].task_loop = "none"
    /\ loops' = [loops EXCEPT ![c] =
                   IF tasksCancelled[c]
                   THEN CancelAllButTaskLoop(t, tasksCancelled[c], TRUE)
                   ELSE t]
    /\ last' = Call("tasks_set", c, "none", 0)
    /\ UNCHANGED <<pathVars, clientVars, queueVars, frameVars, taskVars,
                   clientType, removed, misused>>

\* PathClientTasks.cancel_all_but_task_loop() called on its own.
CancelTasks(c) ==
    /\ loops' = [loops EXCEPT ![c] =
                   CancelAllButTaskLoop(@, tasksCancelled[c], FALSE)]
    /\ tasksCancelled' = [tasksCancelled EXCEPT ![c] = TRUE]
    /\ last' = Call("cancel_all_but_task_loop", c, "none", 0)
    /\ UNCHANGED <<pathVars, clientVars, tqState, closeScheduled, frameVars,
                   taskVars, clientType, removed, misused>>

\* The receive loop of a client, while it is not cancelled, enters
\* receive(): the safeguard asserts that the client is not dropped; when
\* the connection is closed the task queue is closed and Disconnected is
\* raised.
ReceiveLoopStep(c) ==
    /\ loops[c].receive_loop = "running"
    /\ IF ~(state[c] < Dropped)
       THEN /\ last' = Call("receive", c, "AssertionError", 0)
            /\ UNCHANGED tqState
       ELSE IF ~connOpen[c]
       THEN /\ tqState' = [tqState EXCEPT ![c] = CloseTaskQueue(@)]
            /\ last' = Call("receive", c, "Disconnected", 0)
       ELSE /\ last' = Call("receive", c, "none", 0)
            /\ UNCHANGED tqState
    /\ UNCHANGED <<pathVars, clientVars, tasksCancelled, closeScheduled,
                   frameVars, taskVars, loopVars, removed, misused>>

\* ------------------------------------------------------------------ relay
\* The handshake determines the type of a client before it is attached.
AssignType(c, t) ==
    /\ state[c] = Restricted
    /\ clientType[c] = "undetermined"
    /\ clientType' = [clientType EXCEPT ![c] = t]
    /\ last' = Call("assign_type", c, "none", 0)
    /\ UNCHANGED <<pathVars, clientVars, queueVars, frameVars, taskVars,
                   loops, removed, misused>>

\* The client at a slot of the path, or NoClient.
ClientAt(address) ==
    IF address = INITIATOR_ADDRESS THEN initiator
    ELSE IF address \in DOMAIN responders THEN responders[address]
    ELSE NoClient

\* A client sends a message for the destination address: the server asks
\* p2p_allowed(type of the address) and, when the relay is allowed and the
\* address has a client, enqueues the coroutine that sends the message on
\* the task queue of that client.
RelayAttempt(c, address) ==
    LET ok == P2PAllowed(c, AddressTypeOf(address))
        d == ClientAt(address)
    IN
    /\ IF ok /\ d # NoClient
       THEN /\ NextItem(d) <= MaxItems
            /\ EnqueueTask(d, NextItem(d), "coroutine", FALSE)
       ELSE UNCHANGED <<queue, unfinished, items>>
    /\ last' = Call("p2p_allowed", c, IF ok THEN "none" ELSE "refused",
                    address)
    /\ UNCHANGED <<pathVars, clientVars, queueVars, frameVars, inflight,
                   loopAlive, callbacks, connOpen, wire, loopVars, removed,
                   misused>>

\* ----------------------------------------------------------- specifications
\* The server attaches a client once, while it is Restricted, and drops
\* clients that are Authenticated; remove_client is called at any time.
\* A run is followed until a call is made outside this contract.
AttachInitiator(c) ==
    ~misused /\ state[c] = Restricted /\ SetInitiator(c)
    /\ UNCHANGED <<misused, frameVars, taskVars, loopVars>>
AttachResponder(c) ==
    ~misused /\ state[c] = Restricted /\ AddResponder(c)
    /\ UNCHANGED <<misused, frameVars, taskVars, loopVars>>
Remove(c) ==
    ~misused /\ RemoveClient(c)
    /\ UNCHANGED <<misused, frameVars, taskVars, loopVars>>
DropClient(c) ==
    ~misused /\ state[c] = Authenticated /\ Drop(c)
    /\ UNCHANGED <<misused, frameVars, taskVars, clientType>>

Next ==
    \E c \in Clients :
        \/ AttachInitiator(c)
        \/ AttachResponder(c)
        \/ Remove(c)
        \/ DropClient(c)

Spec == Init /\ [][Next]_vars

\* The same calls, and then one call outside the contract: a client that is
\* not Restricted is attached, or a client that is not Authenticated is
\* dropped.  The run is followed up to and including that call.
SetInitiatorAgain(c) ==
    ~misused /\ state[c] # Restricted /\ SetInitiator(c)
    /\ misused' = TRUE /\ UNCHANGED <<frameVars, taskVars, loopVars>>
AddResponderAgain(c) ==
    ~misused /\ state[c] # Restricted /\ AddResponder(c)
    /\ misused' = TRUE /\ UNCHANGED <<frameVars, taskVars, loopVars>>
DropUnauthenticated(c) ==
    ~misused /\ state[c] # Authenticated /\ Drop(c)
    /\ misused' = TRUE /\ UNCHANGED <<frameVars, taskVars, clientType>>

NextAny ==
    \E c \in Clients :
        \/ AttachInitiator(c)
        \/ AttachResponder(c)
        \/ Remove(c)
        \/ DropClient(c)
        \/ SetInitiatorAgain(c)
        \/ AddResponderAgain(c)
        \/ DropUnauthenticated(c)

SpecAny == Init /\ [][NextAny]_vars

\* The combined sequence numbers of the frames one client sends.
NextCsn ==
    \/ \E csn \in CsnValues : ReceiveCsn(csn)
    \/ IncrementCsnIn

SpecCsn == Init /\ [][NextCsn]_vars

\* The cookies of the frames one client sends.
NextCookie ==
    \/ CookieOut
    \/ \E cookie \in Cookies : ValidCookieCall(cookie)

SpecCookie == Init /\ [][NextCookie]_vars

\* The task queue of one client: the client is attached and later dropped
\* while awaitables are enqueued for it, its task loop runs them, the
\* connection is lost or closed, and the queue is closed or cancelled.
QueueClients == {INITIATOR_ADDRESS}

NextQueue ==
    \E c \in QueueClients :
        \/ AttachInitiator(c)
        \/ DropClient(c)
        \/ \E kind \in {"coroutine", "task"} : Enqueue(c, kind)
        \/ RunEnqueueClose(c)
        \/ ConnectionLost(c)
        \/ Ping(c)
        \/ Close(c)
        \/ CloseQueue(c)
        \/ CancelTaskQueue(c)
        \/ TaskLoopDequeue(c)
        \/ TaskLoopFinish(c)
        \/ \E i \in 1..MaxItems :
              TaskCompletes(c, i) \/ TaskCancelled(c, i) \/ DoneCallback(c, i)

SpecQueue == Init /\ [][NextQueue]_vars

\* The event loop runs every callback it has been handed: the task that
\* drop() created is run, a task on which cancel() was called is cancelled,
\* and done callbacks are called.
QueueFairness ==
    \A c \in QueueClients :
        /\ WF_vars(RunEnqueueClose(c))
        /\ \A i \in 1..MaxItems :
              WF_vars(TaskCancelled(c, i)) /\ WF_vars(DoneCallback(c, i))

SpecQueueFair == SpecQueue /\ QueueFairness

\* The task loop is scheduled as well: it takes the next item when there is
\* one and goes on when the item it awaits has completed, and every task
\* that is not cancelled completes.
TaskLoopFairness ==
    \A c \in QueueClients :
        /\ WF_vars(TaskLoopDequeue(c))
        /\ WF_vars(TaskLoopFinish(c))
        /\ \A i \in 1..MaxItems : WF_vars(TaskCompletes(c, i))

SpecDropFair == SpecQueue /\ QueueFairness /\ TaskLoopFairness

\* The background tasks of two clients: each is attached, its tasks are
\* set once, its receive loop runs, and it is dropped or its tasks are
\* cancelled at any time, before the tasks are set as well.
TaskClients == {INITIATOR_ADDRESS, FirstResponderAddress}

NextTasks ==
    \E c \in TaskClients :
        \/ AttachInitiator(c)
        \/ \E r, k \in BOOLEAN : TasksSet(c, r, k)
        \/ CancelTasks(c)
        \/ DropClient(c)
        \/ ConnectionLost(c)
        \/ ReceiveLoopStep(c)

SpecTasks == Init /\ [][NextTasks]_vars

\* Relayed messages between two clients: each gets its type in the
\* handshake and is attached accordingly, sends messages to addresses of
\* the path, and is dropped; the task loops of both clients run.
HandshakeInitiator(c) == clientType[c] = "initiator" /\ AttachInitiator(c)
HandshakeResponder(c) == clientType[c] = "responder" /\ AttachResponder(c)

NextRelay ==
    \E c \in TaskClients :
        \/ \E t \in {"initiator", "responder"} : AssignType(c, t)
        \/ HandshakeInitiator(c)
        \/ HandshakeResponder(c)
        \/ \E a \in SERVER_ADDRESS..MaxResponderAddress : RelayAttempt(c, a)
        \/ DropClient(c)
        \/ RunEnqueueClose(c)
        \/ TaskLoopDequeue(c)
        \/ TaskLoopFinish(c)

SpecRelay == Init /\ [][NextRelay]_vars

\* ------------------------------------------------------------------ claims
\* The clients the path refers to: the initiator slot and the responder
\* table.
Installed ==
    {c \in Clients :
        initiator = c \/ \E a \in DOMAIN responders : responders[a] = c}

\* The step just taken was the call `op` (every call records itself in last).
Called(op) == last'.op = op

C2_SmallestFreeSlot ==
    [][(Called("add_responder") /\ last'.err = "none") =>
          /\ last'.ret \notin DOMAIN responders
          /\ \A a \in ResponderAddresses :
                a < last'.ret => a \in DOMAIN responders]_vars

\* C3: a responder address that has been assigned to a client is never
\* assigned to a different client.  (A client keeps the address it was
\* assigned, so the clients with id a are those a was ever assigned to.)
C3_NeverReassigned ==
    \A a \in ResponderAddresses :
        Cardinality({c \in Clients : id[c] = a}) <= 1
\* C3, amended: as long as no responder has been removed from the path, no
\* responder address is assigned to a second client.
C3_ReassignedOnlyAfterRemoval == ~removed => C3_NeverReassigned
\* Two responders have been assigned addresses and none has been removed.
C3_Witness ==
    /\ ~removed
    /\ \E c, d \in Clients : id[c] = 2 /\ id[d] = 3

\* C4: add_responder raises SlotsFullError exactly when every responder
\* address is taken; then the table is unchanged and the client stays
\* Restricted with address 0x00; otherwise the client is installed at the
\* returned address and authenticated.
C4_SlotsFull ==
    [][Called("add_responder") =>
          LET c == last'.client
              full == (DOMAIN responders = ResponderAddresses)
          IN  /\ (last'.err = "SlotsFullError") <=> full
              /\ full =>
                    /\ responders' = responders
                    /\ initiator' = initiator
                    /\ state'[c] = Restricted
                    /\ id'[c] = SERVER_ADDRESS
              /\ ~full =>
                    /\ last'.err = "none"
                    /\ last'.ret \in DOMAIN responders'
                    /\ responders'[last'.ret] = c
                    /\ state'[c] = Authenticated
                    /\ id'[c] = last'.ret]_vars
\* add_responder has failed on a full table.
C4_Witness ==
    /\ last.op = "add_responder"
    /\ last.err = "SlotsFullError"
    /\ DOMAIN responders = ResponderAddresses
    /\ state[last.client] = Restricted

\* C5: set_initiator on a Restricted client installs it at slot 0x01,
\* authenticates it with address 0x01 and returns the client that held the
\* slot before the call (or none); no other client's state or address
\* changes, the displaced initiator's included.
C5_SetInitiator ==
    [][(Called("set_initiator") /\ state[last'.client] = Restricted) =>
          LET c == last'.client
          IN  /\ last'.err = "none"
              /\ initiator' = c
              /\ state'[c] = Authenticated
              /\ id'[c] = INITIATOR_ADDRESS
              /\ last'.ret = initiator
              /\ responders' = responders
              /\ \A d \in Clients \ {c} :
                    state'[d] = state[d] /\ id'[d] = id[d]]_vars
\* An initiator has been displaced and is still Authenticated.
C5_Witness ==
    /\ last.op = "set_initiator"
    /\ last.ret # NoClient
    /\ initiator = last.client
    /\ state[last.ret] = Authenticated
    /\ id[last.ret] = INITIATOR_ADDRESS

\* C6: calling remove_client(c) twice in a row raises no error, and the
\* second call leaves the path as the first call left it.
C6_RemoveTwice ==
    [][(last.op = "remove_client" /\ Called("remove_client")
            /\ last'.client = last.client) =>
          /\ last'.err = "none"
          /\ initiator' = initiator
          /\ responders' = responders]_vars

\* C7: remove_client(c) changes nothing when c is Restricted; when c has
\* address 0x01 and is not the client in the initiator slot, the slot and the
\* responders stay as they are; the initiator slot is cleared only by
\* removing the client that is installed in it.
C7_RemoveInitiator ==
    [][Called("remove_client") =>
          LET c == last'.client
          IN  /\ state[c] = Restricted =>
                    /\ last'.err = "none"
                    /\ UNCHANGED <<initiator, responders, state, id>>
              /\ (state[c] # Restricted /\ id[c] = INITIATOR_ADDRESS
                    /\ initiator # c) =>
                    UNCHANGED <<initiator, responders>>
              /\ initiator' # initiator =>
                    initiator = c /\ initiator' = NoClient]_vars
\* A displaced initiator has been removed and the slot still holds its
\* successor.
C7_Witness ==
    /\ last.op = "remove_client"
    /\ last.err = "none"
    /\ state[last.client] # Restricted
    /\ id[last.client] = INITIATOR_ADDRESS
    /\ initiator \notin {NoClient, last.client}

\* C8: every client the path refers to is Authenticated or Dropped.
C8_NoRestrictedInstalled ==
    \A c \in Installed : state[c] \in {Authenticated, Dropped}
\* A Dropped client is still installed as a responder, next to an
\* Authenticated initiator.
C8_Witness ==
    /\ initiator # NoClient
    /\ state[initiator] = Authenticated
    /\ \E a \in DOMAIN responders : state[responders[a]] = Dropped

\* C9: a client's state changes only to the state that follows it; a call
\* that would assign any other state (authenticate on a client that is not
\* Restricted, drop on a client that is not Authenticated) raises ValueError
\* and leaves every state unchanged.
C9_StateOrder ==
    [][/\ \A c \in Clients :
             state'[c] # state[c] =>
                 ClientStateHasNext(state[c])
                     /\ state'[c] = ClientStateNext(state[c])
       /\ (Called("set_initiator") /\ state[last'.client] # Restricted) =>
             last'.err = "ValueError" /\ state' = state
       /\ (Called("add_responder") /\ state[last'.client] # Restricted) =>
             last'.err \in {"ValueError", "SlotsFullError"} /\ state' = state
       /\ (Called("drop") /\ state[last'.client] # Authenticated) =>
             last'.err = "ValueError" /\ state' = state
       /\ last'.err # "none" => state' = state]_vars
\* drop has been refused on a client that is already Dropped.
C9_Witness ==
    /\ last.op = "drop"
    /\ last.err = "ValueError"
    /\ state[last.client] = Dropped

\* C10: a Restricted client has address 0x00 and an Authenticated client has
\* another address.
C10_StateAndAddress ==
    \A c \in Clients :
        /\ state[c] = Restricted => id[c] = SERVER_ADDRESS
        /\ state[c] = Authenticated => id[c] # SERVER_ADDRESS
\* An initiator and a responder are Authenticated while a third client is
\* still Restricted.
C10_Witness ==
    \E c, d, e \in Clients :
        /\ state[c] = Authenticated /\ id[c] = INITIATOR_ADDRESS
        /\ state[d] = Authenticated /\ id[d] = FirstResponderAddress
        /\ state[e] = Restricted /\ id[e] = SERVER_ADDRESS

\* C11: the numbers validate_csn_in() accepts, each acceptance followed by
\* increment_csn_in(), are k, k+1, k+2, ... for a k below 2^SeqBits (2^32 in
\* the program); no other number is accepted, and none once the recorded
\* number is the overflow sentinel.
C11_AcceptedCsnsConsecutive ==
    /\ accepted # <<>> => accepted[1] \in 0..(2 ^ SeqBits - 1)
    /\ \A n \in 1..Len(accepted) :
          /\ accepted[n] = accepted[1] + (n - 1)
          /\ accepted[n] \in CsnValues
    /\ csnIn = OverflowSentinel => ~csnPending

\* A run of accepted numbers that has reached the overflow.
C11_Witness ==
    /\ Len(accepted) >= 3
    /\ csnIn = OverflowSentinel

\* C12: validate_csn_in(csn) raises MessageError for a first frame whose
\* leading bits are not zero and leaves the number unset; for a later frame
\* it raises MessageFlowError when the recorded number is the overflow
\* sentinel and MessageError when csn differs from the recorded number; a
\* frame that is rejected never changes the recorded number.
C12_ValidateCsnIn ==
    [][Called("validate_csn_in") =>
        LET csn == last'.client IN
        /\ (csnIn = NoCsn /\ LeadingBits(csn) # 0) =>
               last'.err = "MessageError" /\ csnIn' = NoCsn
        /\ csnIn = OverflowSentinel => last'.err = "MessageFlowError"
        /\ (csnIn \in CsnValues /\ csn # csnIn) =>
               last'.err = "MessageError"
        /\ last'.err # "none" => csnIn' = csnIn
        /\ last'.err = "none" => csnIn' = csn
    ]_vars

\* A frame refused because the number has overflowed, after frames have
\* been accepted.
C12_Witness ==
    /\ last.op = "validate_csn_in"
    /\ last.err = "MessageFlowError"
    /\ accepted # <<>>

\* C13: incrementing a combined sequence number gives the overflow sentinel
\* exactly when the incremented value would exceed CsnLimit - 1
\* (0xFFFFFFFFFFFF in the program) and the value plus one otherwise; the
\* overflow sentinel is terminal: incrementing it gives it again, and
\* every later validate_csn_in() is refused.
C13_IncrementAndOverflow ==
    [][/\ Called("increment_csn_in") =>
            csnIn' = IF csnIn = OverflowSentinel
                     THEN OverflowSentinel
                     ELSE IF csnIn + 1 > CsnLimit - 1
                     THEN OverflowSentinel
                     ELSE csnIn + 1
       /\ csnIn = OverflowSentinel =>
            /\ csnIn' = OverflowSentinel
            /\ Called("validate_csn_in") => last'.err # "none"
    ]_vars

\* An increment has turned the number into the overflow sentinel after
\* frames were accepted.
C13_Witness ==
    /\ csnIn = OverflowSentinel
    /\ last.op = "increment_csn_in"
    /\ Len(accepted) >= 2

\* C14: valid_cookie(cookie) accepts a first cookie exactly when it differs
\* from the cookie of the server, and records it; it accepts a later cookie
\* exactly when it is the recorded one; so the recorded cookie never
\* changes and always differs from the cookie of the server.
C14_ValidCookie ==
    [][/\ Called("valid_cookie") =>
            LET cookie == last'.client
                ok == last'.ret = 1
            IN
            IF cookieIn = NoCookie
            THEN /\ ok <=> cookie # cookieOut'
                 /\ cookieIn' = IF ok THEN cookie ELSE NoCookie
            ELSE ok <=> cookie = cookieIn
       /\ cookieIn # NoCookie => cookieIn' = cookieIn
       /\ cookieIn' # NoCookie =>
            cookieOut' # NoCookie /\ cookieIn' # cookieOut'
       /\ cookieOut # NoCookie => cookieOut' = cookieOut
    ]_vars

\* A cookie is recorded and a later frame with another cookie has been
\* refused.
C14_Witness ==
    /\ cookieIn # NoCookie
    /\ last.op = "valid_cookie"
    /\ last.ret = 0
    /\ last.client # cookieIn

\* The items on the queue of a client, and the items that have been put on
\* it at some time.
Pending(c) == {queue[c][k] : k \in 1..Len(queue[c])}
Placed(c) ==
    {i \in Items : items[c][i].pos \in {"queued", "inflight", "ran", "drained"}}

\* C15: the state of a task queue only advances, Open to Closed to
\* Cancelled, whatever the interleaving of enqueue_task, close_task_queue,
\* cancel_task_queue, close, drop and the handling of a lost connection.
C15_QueueStateAdvances ==
    [][\A c \in Clients :
          /\ tqState'[c] >= tqState[c]
          /\ tqState'[c] \in {QueueOpen, QueueClosed, QueueCancelled}
    ]_vars

\* close_task_queue() has been called on a cancelled queue.
C15_Witness ==
    \E c \in Clients :
        /\ tqState[c] = QueueCancelled
        /\ last.op = "close_task_queue"
        /\ last.client = c

\* C16: enqueue_task puts the item on the queue exactly when the queue is
\* Open, or Closed with ignore_closed set; in every other case the item is
\* cancelled in the call, is never on the queue and is never run.  (The
\* close coroutine of drop() is the item enqueued with ignore_closed.)
C16_EnqueueTask ==
    [][/\ Called("enqueue_task") =>
            LET c == last'.client
                i == last'.ret
                ignore_closed == (i = CloseItem)
            IN
            IF \/ tqState[c] = QueueOpen
               \/ tqState[c] = QueueClosed /\ ignore_closed
            THEN /\ queue'[c] = Append(queue[c], i)
                 /\ items'[c][i].pos = "queued"
            ELSE /\ queue'[c] = queue[c]
                 /\ items'[c][i].pos = "rejected"
                 /\ items'[c][i].st \in {"closed", "cancelling"}
       /\ \A c \in Clients : \A i \in Items :
            items[c][i].pos = "rejected" =>
                /\ items'[c][i].pos = "rejected"
                /\ items'[c][i].st \in {"closed", "cancelling", "cancelled"}
                /\ i \notin {queue'[c][k] : k \in 1..Len(queue'[c])}
                /\ inflight'[c] # i
                /\ \A k \in 1..Len(wire'[c]) : wire'[c][k].item # i
    ]_vars

\* The close coroutine has been put on a closed queue that has refused
\* another item.
C16_Witness ==
    \E c \in Clients :
        /\ items[c][CloseItem].pos = "queued"
        /\ \E i \in 1..MaxItems : items[c][i].pos = "rejected"

\* C17: close_task_queue() never touches the pending items, and on a queue
\* that is Closed or Cancelled it changes nothing at all.
C17_CloseTaskQueue ==
    [][Called("close_task_queue") =>
        LET c == last'.client IN
        /\ queue' = queue
        /\ items' = items
        /\ unfinished' = unfinished
        /\ callbacks' = callbacks
        /\ inflight' = inflight
        /\ tqState[c] = QueueOpen => tqState'[c] = QueueClosed
        /\ tqState[c] >= QueueClosed =>
              UNCHANGED <<pathVars, clientVars, queueVars, taskVars>>
    ]_vars

\* close_task_queue() has been called on a closed queue with pending items.
C17_Witness ==
    \E c \in Clients :
        /\ last.op = "close_task_queue"
        /\ last.client = c
        /\ tqState[c] = QueueClosed
        /\ Len(queue[c]) >= 2

\* C18: cancel_task_queue() drains the queue: no pending item is left on a
\* cancelled queue; each item that was pending is cancelled and marked done
\* exactly once, a task only once it is cancelled or done; task_done() is
\* never called more often than items were put; and once the task loop has
\* no item in flight the count of unfinished items falls to zero, on which
\* join_task_queue() returns.
C18_Drained(c) ==
    /\ tqState[c] = QueueCancelled => queue[c] = <<>>
    /\ \A i \in Items :
          LET it == items[c][i] IN
          /\ it.done <= 1
          /\ it.pos = "drained" =>
                /\ it.st \in {"closed", "cancelling", "cancelled", "done"}
                /\ it.kind # "task" => it.st = "closed" /\ it.done = 1
                /\ it.kind = "task" =>
                      /\ it.done = 1 <=> i \notin callbacks[c]
                      /\ it.done = 1 => it.st \in {"cancelled", "done"}
    /\ last.err # "InternalError"
    /\ unfinished[c] =
          Cardinality(Placed(c))
              - Cardinality({i \in Items : items[c][i].done = 1})
    /\ unfinished[c] >= 0
C18_CancelTaskQueue ==
    /\ [](\A c \in Clients : C18_Drained(c))
    /\ \A c \in QueueClients :
          (tqState[c] = QueueCancelled /\ inflight[c] = NoItem)
              ~> (unfinished[c] = 0)

\* A coroutine and a task have been drained and both are marked done.
C18_Witness ==
    \E c \in Clients :
        /\ tqState[c] = QueueCancelled
        /\ unfinished[c] = 0
        /\ \E i, j \in Items :
              /\ items[c][i].pos = "drained" /\ items[c][i].kind = "task"
              /\ items[c][j].pos = "drained" /\ items[c][j].kind # "task"

\* C19: drop() puts the close coroutine behind every item on the queue:
\* when the close coroutine starts, every item that was put on the queue
\* has been dequeued and run by the task loop, and no item is ever on the
\* queue behind the close coroutine.
C19_CloseBehindQueuedItems ==
    \A c \in Clients :
        /\ items[c][CloseItem].st \in {"running", "finished"} =>
              /\ \A i \in Placed(c) \ {CloseItem} : items[c][i].pos = "ran"
              /\ queue[c] = <<>>
        /\ \A k \in 1..Len(queue[c]) :
              queue[c][k] = CloseItem => k = Len(queue[c])

\* The close coroutine has closed the connection after the task loop has
\* run all the items enqueued for the client.
C19_Witness ==
    \E c \in Clients :
        /\ items[c][CloseItem].st = "finished"
        /\ \A i \in 1..MaxItems : items[c][i].pos = "ran"

\* C20, as stated: after drop(c) has returned, no frame is written to c but
\* the close frame of the queued close coroutine.
C20_OnlyCloseFrameAfterDrop ==
    \A c \in Clients : \A k \in 1..Len(wire[c]) :
        wire[c][k].type = "close" /\ wire[c][k].item = CloseItem

\* C20, amended: after drop(c) has returned, the frames written to c are
\* messages of items that were enqueued before drop(c) returned, and then
\* the close frame of the queued close coroutine, which is the last frame.
C20_OnlyQueuedFramesAfterDrop ==
    \A c \in Clients : \A k \in 1..Len(wire[c]) :
        LET f == wire[c][k] IN
        IF f.type = "close"
        THEN f.item = CloseItem /\ k = Len(wire[c])
        ELSE /\ f.type = "message"
             /\ f.item \in 1..MaxItems
             /\ ~items[c][f.item].late

\* A message and then the close frame have been written to a dropped
\* client, and an item enqueued after drop() has been refused.
C20_Witness ==
    \E c \in Clients :
        /\ Len(wire[c]) >= 2
        /\ wire[c][Len(wire[c])].type = "close"
        /\ \E i \in 1..MaxItems : items[c][i].late

\* C21: after drop() on an Authenticated client, with the event loop and
\* the task loop scheduled fairly, the connection of the client is closed
\* at some time, whatever the interleaving with close_task_queue(),
\* cancel_task_queue() and the handling of a lost connection.
C21_DropClosesConnection ==
    \A c \in QueueClients : (state[c] = Dropped) ~> ~connOpen[c]

\* C22: whatever the order of PathClientTasks.set and
\* cancel_all_but_task_loop, once both have happened the receive loop and
\* the keep alive loop are cancelled and the task loop is not; a repeated
\* cancel_all_but_task_loop changes nothing; and no step cancels the task
\* loop.
C22_TasksSetAndCancel ==
    [][/\ \A c \in Clients :
            /\ loops'[c].task_loop # "cancelled"
            /\ (loops'[c].task_loop # "none" /\ tasksCancelled'[c]) =>
                  /\ loops'[c].task_loop = "running"
                  /\ loops'[c].receive_loop # "running"
                  /\ loops'[c].keep_alive_loop # "running"
       /\ (Called("cancel_all_but_task_loop")
              /\ tasksCancelled[last'.client]) =>
            UNCHANGED <<loops, tasksCancelled>>
    ]_vars

\* The tasks of a client were set after it had been dropped: the receive
\* loop and the keep alive loop are cancelled, the task loop runs.
C22_Witness ==
    \E c \in Clients :
        /\ last.op = "tasks_set"
        /\ last.client = c
        /\ state[c] = Dropped
        /\ loops[c] = [task_loop |-> "running", receive_loop |-> "cancelled",
                        keep_alive_loop |-> "cancelled"]

\* C25: the safeguard of receive() holds: receive() is never entered for a
\* client that is Dropped, also when the client was dropped after it was
\* attached and before its tasks were set.
C25_ReceiveNeverOnDropped ==
    [][Called("receive") =>
        /\ state[last'.client] < Dropped
        /\ last'.err # "AssertionError"
    ]_vars

\* receive() has been entered for a client while another client has been
\* dropped and has its receive loop cancelled.
C25_Witness ==
    \E c, d \in Clients :
        /\ last.op = "receive"
        /\ last.client = c
        /\ d # c
        /\ state[d] = Dropped
        /\ loops[d].receive_loop = "cancelled"

\* C23: p2p_allowed(destination_type) is true exactly when the client is
\* Authenticated and the destination type differs from the type of the
\* client; a client that is Restricted or Dropped is never admitted, and no
\* client relays to an address of its own type.
C23_P2PAllowed ==
    [][Called("p2p_allowed") =>
        LET c == last'.client
            destination_type == AddressTypeOf(last'.ret)
        IN
        /\ (last'.err = "none") <=>
              (state[c] = Authenticated /\ clientType[c] # destination_type)
        /\ state[c] \in {Restricted, Dropped} => last'.err = "refused"
        /\ clientType[c] = destination_type => last'.err = "refused"
        /\ last'.err = "refused" => UNCHANGED <<queue, items>>
    ]_vars

\* An Authenticated client has been refused a relay to its own type.
C23_Witness ==
    \E c \in Clients :
        /\ last.op = "p2p_allowed"
        /\ last.client = c
        /\ last.err = "refused"
        /\ state[c] = Authenticated
        /\ clientType[c] = AddressTypeOf(last.ret)

\* C24: when a message of a responder for the initiator is on the task
\* queue of the initiator and the responder is then dropped, the message is
\* written to the initiator before the close frame is written to the
\* responder.
C24_RelayBeforeClose ==
    \A r, c \in Clients :
        (/\ clientType[r] = "responder"
         /\ clientType[c] = "initiator"
         /\ \E k \in 1..Len(wire[r]) : wire[r][k].type = "close")
            => \A i \in Placed(c) \ {CloseItem} : items[c][i].pos = "ran"

\* C26: attaching is atomic on failure: when set_initiator or add_responder
\* is given a client that is not Restricted, so that authenticate raises
\* ValueError, the initiator slot and the responder table are the same as
\* before the call.
C26_AttachAtomicOnFailure ==
    [][((Called("set_initiator") \/ Called("add_responder"))
            /\ last'.err = "ValueError")
        => UNCHANGED <<initiator, responders>>
    ]_vars

\* C27: remove_client(c) only removes c: removing a responder c leaves
\* has_client(d) as it was for every other client d.
C27_RemoveOnlyRemovesClient ==
    [][Called("remove_client") =>
        \A d \in Clients \ {last'.client} : HasClient(d)' = HasClient(d)
    ]_vars

\* C28: drop() is all-or-nothing: when it is called for a client that is
\* not Authenticated and raises ValueError, it has scheduled no close
\* coroutine, has not closed the task queue and has not cancelled the
\* receive loop or the keep alive loop.
C28_DropAllOrNothing ==
    [][(Called("drop") /\ last'.err = "ValueError")
        => UNCHANGED <<closeScheduled, tqState, tasksCancelled, loops>>
    ]_vars
====
